---- MODULE Spec2Model ----
(***************************************************************************)
(* Model of the MuseQuill newsletter service (src/newsletter_service.py):  *)
(* the NewsletterDatabase store (add_subscriber, log_event, get_analytics, *)
(* export_subscribers behind get_connection's RLock), the launch countdown *)
(* arithmetic, and the signup handler with its welcome-email task on the   *)
(* asyncio event loop.                                                     *)
(*                                                                         *)
(* Modelling conventions                                                   *)
(*  - a datetime is [s, us]: whole seconds relative to the launch instant  *)
(*    (2025-09-01T00:00:00+00:00, a UTC midnight) and microseconds;        *)
(*  - datetime.isoformat() is the tuple <<date, second of day, fraction    *)
(*    present, microseconds>>, compared the way SQLite compares the        *)
(*    strings (field by field, '+' sorting before '.');                    *)
(*  - uuid.uuid4() draws successive values of a counter (fresh values);    *)
(*  - SQL NULL / Python None is None for text and NULL for timestamps      *)
(*    and fetched rows;                                                    *)
(*  - the text of an exception or of a response message is the sequence of *)
(*    its words, so that `part in text` is a search of the sequence.        *)
(***************************************************************************)
EXTENDS Integers, Sequences, FiniteSets, TLC

VARIABLES
    subscribers,   \* committed rows of table subscribers
    events,        \* committed rows of table events, in insertion order
    lock,          \* owner of NewsletterDatabase._lock (0: free)
    conn,          \* per thread: the open connection's working copy, or NoConn
    th,            \* per thread: position and locals of the running operation
    uuidCtr,       \* number of uuid4() values drawn so far
    clock,         \* datetime.now(timezone.utc)
    cd,            \* countdown harness: the instant and the computed countdown
    loop           \* asyncio event loop of the service: requests, tasks, store

vars == <<subscribers, events, lock, conn, th, uuidCtr, clock, cd, loop>>

---------------------------------------------------------------------------
(* Bounds of the model *)

NumThreads == 2
MaxUuid == 6

---------------------------------------------------------------------------
(* Program constants *)

SecondsPerDay == 86400
SecondsPerHour == 3600
SecondsPerMinute == 60
MicrosPerSecond == 1000000

None == "None"
NULL == <<>>

Threads == 1..NumThreads

(* datetime values: seconds relative to the launch instant, microseconds *)
DT(s, us) == [s |-> s, us |-> us]

launch_date == DT(0, 0)

(* datetime - timedelta(days=days) *)
MinusDays(dt, days) == DT(dt.s - days * SecondsPerDay, dt.us)

(* datetime.isoformat(): "YYYY-MM-DDTHH:MM:SS[.ffffff]+00:00"; the fraction *)
(* is omitted when microsecond = 0 *)
IsoFormat(dt) ==
    << dt.s \div SecondsPerDay, dt.s % SecondsPerDay,
       IF dt.us = 0 THEN 0 ELSE 1, dt.us >>

(* string comparison a >= b of two isoformat() texts *)
IsoGeqMutStrict(a, b) ==
    \/ a[1] > b[1]
    \/ a[1] = b[1] /\ a[2] > b[2]
    \/ a[1] = b[1] /\ a[2] = b[2] /\ a[3] > b[3]
    \/ a[1] = b[1] /\ a[2] = b[2] /\ a[3] = b[3] /\ a[4] > b[4]

IsoGeq(a, b) ==
    \/ a[1] > b[1]
    \/ a[1] = b[1] /\ a[2] > b[2]
    \/ a[1] = b[1] /\ a[2] = b[2] /\ a[3] > b[3]
    \/ a[1] = b[1] /\ a[2] = b[2] /\ a[3] = b[3] /\ a[4] >= b[4]

(* SQLite DATE(text): the calendar date (UTC) of the timestamp *)
DATE(iso) == iso[1]

(* the instant an isoformat() text denotes *)
Instant(iso) == DT(iso[1] * SecondsPerDay + iso[2], iso[4])

(* chronological order of instants *)
NotBefore(a, b) == a.s > b.s \/ (a.s = b.s /\ a.us >= b.us)

---------------------------------------------------------------------------
(* Launch countdown (get_analytics, lines 333-351) *)

(* a - b as a Python timedelta: normalised so that 0 <= seconds < 86400 *)
(* and 0 <= microseconds < 1000000, the sign carried by days alone      *)
TimeDeltaMutNoBorrow(a, b) ==
    [ days |-> (a.s - b.s) \div SecondsPerDay,
      seconds |-> (a.s - b.s) % SecondsPerDay,
      microseconds |-> a.us - b.us ]

TimeDelta(a, b) ==
    LET borrow == IF a.us < b.us THEN 1 ELSE 0
        secs == a.s - b.s - borrow
    IN  [ days |-> secs \div SecondsPerDay,
          seconds |-> secs % SecondsPerDay,
          microseconds |-> a.us - b.us + borrow * MicrosPerSecond ]

(* int(timedelta.total_seconds()): the float truncated toward zero *)
IntTotalSeconds(td) ==
    LET whole == td.days * SecondsPerDay + td.seconds
    IN  IF whole < 0 /\ td.microseconds > 0 THEN whole + 1 ELSE whole

Max0(x) == IF x > 0 THEN x ELSE 0

launch_countdown(now) ==
    LET time_diff == TimeDelta(launch_date, now)
    IN  [ days |-> Max0(time_diff.days),
          hours |-> Max0(time_diff.seconds \div SecondsPerHour),
          minutes |-> Max0((time_diff.seconds % SecondsPerHour) \div SecondsPerMinute),
          seconds |-> Max0(time_diff.seconds % SecondsPerMinute),
          total_seconds |-> Max0(IntTotalSeconds(time_diff)) ]

---------------------------------------------------------------------------
(* Inputs *)

Emails == {"a@example.com", "b@example.com"}

(* json.dumps(value) *)
JsonDumps(v) == <<"json", v>>

(* NewsletterSignup: the field defaults of the model, and a signup that *)
(* sets every optional field                                            *)
DefaultSignup(e) ==
    [ email |-> e, name |-> None, source |-> "landing_page",
      campaign |-> "early_access_2025", interests |-> NULL, referrer |-> None,
      user_agent |-> None, ip_address |-> None, utm_source |-> None,
      utm_medium |-> None, utm_campaign |-> None, utm_content |-> None ]

FullSignup(e) ==
    [ email |-> e, name |-> "Ann", source |-> "twitter",
      campaign |-> "summer", interests |-> <<"ai">>, referrer |-> "https://t.co/x",
      user_agent |-> "Mozilla/5.0", ip_address |-> "198.51.100.9", utm_source |-> "tw",
      utm_medium |-> "social", utm_campaign |-> "launch", utm_content |-> "banner" ]

NoSignup == DefaultSignup(None)

(* the (signup, ip_address) argument pairs of add_subscriber *)
AddCalls ==
    { [signup |-> DefaultSignup(e), ip_address |-> None] : e \in Emails } \cup
    { [signup |-> FullSignup("a@example.com"), ip_address |-> "203.0.113.7"] }

(* campaign arguments of export_subscribers: absent, empty, two names *)
CampaignFilters == {None, "", "summer", "early_access_2025"}

(* days arguments of get_analytics *)
WindowDays == {7, 30}

(* instants the clock takes: 30 days before the launch, 7 days before it, *)
(* the launch instant, and half a second after it                         *)
Times ==
    { DT(-30 * SecondsPerDay, 0), DT(-7 * SecondsPerDay, 0),
      DT(0, 0), DT(0, 500000) }

StartTime == DT(-30 * SecondsPerDay, 0)

(* the instants of the clock while only signups run *)
SignupTimes == { StartTime, DT(-7 * SecondsPerDay, 0), launch_date }

---------------------------------------------------------------------------
(* The store: tables, connection, transaction *)

(* the k-th uuid.uuid4() drawn by the running step *)
uuid4MutConstant(k) == 1

uuid4(k) == uuidCtr + k

NoConn == [open |-> FALSE, subs |-> {}, evts |-> <<>>]

(* sqlite3.connect under self._lock: the connection sees the committed tables *)
Connect == [open |-> TRUE, subs |-> subscribers, evts |-> events]

(* the row INSERT INTO subscribers writes (lines 217-240); the columns the *)
(* statement does not name take the table's defaults (lines 151-158)       *)
NewRow(subscriber_id, signup, ip_address, token, now) ==
    [ id |-> subscriber_id,
      email |-> signup.email,
      name |-> signup.name,
      source |-> signup.source,
      campaign |-> signup.campaign,
      interests |-> JsonDumps(signup.interests),   \* `interests or []`: NULL is []
      referrer |-> signup.referrer,
      user_agent |-> signup.user_agent,
      ip_address |-> ip_address,
      utm_source |-> signup.utm_source,
      utm_medium |-> signup.utm_medium,
      utm_campaign |-> signup.utm_campaign,
      utm_content |-> signup.utm_content,
      is_active |-> 1,
      is_confirmed |-> 0,
      confirmation_token |-> token,
      created_at |-> now,
      updated_at |-> now,
      last_email_sent |-> NULL,
      unsubscribed_at |-> NULL,
      metadata |-> "{}" ]

(* sqlite3.IntegrityError of the INSERT: id is the PRIMARY KEY, email is UNIQUE *)
IntegrityErrorMutNoUnique(subs, row) == \E r \in subs : r.id = row.id

IntegrityError(subs, row) ==
    \E r \in subs : r.id = row.id \/ r.email = row.email

(* SELECT id, is_active, unsubscribed_at FROM subscribers WHERE email = ?; *)
(* fetchone()                                                              *)
SelectByEmail(subs, email) ==
    IF \E r \in subs : r.email = email
    THEN LET r == CHOOSE r \in subs : r.email = email
         IN  <<r.id, r.is_active, r.unsubscribed_at>>
    ELSE NULL

(* `result and result[2]`: a row was fetched and its unsubscribed_at is set *)
WasUnsubscribedMutAnyRow(result) == result # NULL

WasUnsubscribedMutInactive(result) == result # NULL /\ result[2] = 0

WasUnsubscribed(result) == result # NULL /\ result[3] # NULL

(* UPDATE subscribers SET is_active = 1, unsubscribed_at = NULL,           *)
(* updated_at = ?, source = ?, campaign = ? WHERE email = ? (lines 261-269) *)
UpdateRowMutKeepCampaign(r, signup, now) ==
    [r EXCEPT !.is_active = 1, !.unsubscribed_at = NULL, !.updated_at = now,
              !.source = signup.source]

UpdateRow(r, signup, now) ==
    [r EXCEPT !.is_active = 1, !.unsubscribed_at = NULL, !.updated_at = now,
              !.source = signup.source, !.campaign = signup.campaign]

UpdateByEmailMutNoWhere(subs, signup, now) ==
    { UpdateRow(r, signup, now) : r \in subs }

UpdateByEmail(subs, signup, now) ==
    { IF r.email = signup.email THEN UpdateRow(r, signup, now) ELSE r : r \in subs }

(* the row log_event inserts into events (lines 281-292) *)
EventRow(event_id, subscriber_id, event_type, event_data, now) ==
    [ id |-> event_id, subscriber_id |-> subscriber_id, event_type |-> event_type,
      event_data |-> JsonDumps(event_data), created_at |-> now ]

log_event(c, event_id, subscriber_id, event_type, event_data) ==
    [c EXCEPT !.evts = Append(@, EventRow(event_id, subscriber_id, event_type,
                                          event_data, IsoFormat(clock)))]

---------------------------------------------------------------------------
(* Queries *)

(* a >= b under the ORDER BY key: created_at (export), date (daily *)
(* signups), count (sources, campaigns)                           *)
OrderGeq(by, a, b) ==
    CASE by = "created_at" -> IsoGeq(a.created_at, b.created_at)
      [] by = "date" -> a.date >= b.date
      [] OTHER -> a.count >= b.count

(* the orderings of a result set an ORDER BY ... DESC allows: every row *)
(* once, no row before a strictly greater one; ties in any order        *)
Orderings(S, by) ==
    { f \in [1..Cardinality(S) -> S] :
        /\ \A x \in S : \E i \in 1..Cardinality(S) : f[i] = x
        /\ \A i, j \in 1..Cardinality(S) : i < j => OrderGeq(by, f[i], f[j]) }

(* SELECT * FROM subscribers WHERE is_active = 1 [AND campaign = ?]; the *)
(* filter is added only when `campaign` is truthy (lines 359-364)        *)
ExportRowsMutAll(subs, campaign) == subs

ExportRows(subs, campaign) ==
    { r \in subs :
        /\ r.is_active = 1
        /\ (campaign # None /\ campaign # "") => r.campaign = campaign }

(* rows with created_at >= cutoff_date (the WHERE of lines 307-331) *)
WindowRowsMutNoCutoff(subs, cutoff_date) == subs

WindowRows(subs, cutoff_date) ==
    { r \in subs : IsoGeq(r.created_at, cutoff_date) }

(* SELECT DATE(created_at) as date, the count ... GROUP BY DATE(created_at) *)
DailyGroups(rows) ==
    { [date |-> d, count |-> Cardinality({r \in rows : DATE(r.created_at) = d})] :
        d \in {DATE(r.created_at) : r \in rows} }

(* SELECT source, the count ... GROUP BY source *)
SourceGroups(rows) ==
    { [source |-> x, count |-> Cardinality({r \in rows : r.source = x})] :
        x \in {r.source : r \in rows} }

(* SELECT campaign, the count ... GROUP BY campaign *)
CampaignGroups(rows) ==
    { [campaign |-> x, count |-> Cardinality({r \in rows : r.campaign = x})] :
        x \in {r.campaign : r \in rows} }

(* the dictionary get_analytics returns (lines 338-352) *)
AnalyticsSnapshot(subs, daily_signups, sources, campaigns, now) ==
    [ total_subscribers |-> Cardinality(subs),
      active_subscribers |-> Cardinality({r \in subs : r.is_active = 1}),
      confirmed_subscribers |-> Cardinality({r \in subs : r.is_confirmed = 1}),
      daily_signups |-> daily_signups,
      sources |-> sources,
      campaigns |-> campaigns,
      launch_countdown |-> launch_countdown(now) ]

---------------------------------------------------------------------------
(* Threads calling the store *)

NoRet == [kind |-> "none"]

Idle ==
    [ pc |-> "idle", op |-> None, signup |-> NoSignup, ip_address |-> None,
      subscriber_id |-> 0, now |-> NULL, result |-> NULL, campaign |-> None,
      days |-> 0, cutoff_date |-> NULL, ret |-> NoRet ]

(* the thread is not inside an operation: it can start the next call *)
Callable(t) == th[t].pc \in {"idle", "done"}

(* uuid4() values the running add_subscriber calls will still draw *)
PendingDraws(t) ==
    CASE th[t].pc \in {"connect", "insert"} /\ th[t].op = "add_subscriber" -> 2
      [] th[t].pc \in {"log_signup", "select", "update", "log_resubscribe"} -> 1
      [] OTHER -> 0

RECURSIVE SumDraws(_)
SumDraws(T) ==
    IF T = {} THEN 0
    ELSE LET t == CHOOSE t \in T : TRUE IN PendingDraws(t) + SumDraws(T \ {t})

(* leaving `with self.get_connection()`: conn.close() drops what was not *)
(* committed, then the RLock is released (lines 130-131, 124)            *)
Leave(t, ret) ==
    /\ conn' = [conn EXCEPT ![t] = NoConn]
    /\ lock' = 0
    /\ th' = [th EXCEPT ![t].pc = "done", ![t].ret = ret]

(* `with self._lock`: the RLock is free (no thread of the model re-enters) *)
LockFreeMutNoLock == TRUE

LockFree == lock = 0

(* conn.close() without a commit: the pending statements are rolled back *)
RollbackMutCommit(t) ==
    /\ subscribers' = conn[t].subs
    /\ events' = conn[t].evts

Rollback(t) == UNCHANGED <<subscribers, events>>

(* conn.commit() *)
Commit(t) ==
    /\ subscribers' = conn[t].subs
    /\ events' = conn[t].evts


Return(v) == [kind |-> "return", value |-> v]
Raise(exc, detail) == [kind |-> exc, detail |-> detail]

(* the text of the ValueError of line 279 *)
EmailAlreadySubscribed == <<"Email", "already", "subscribed">>

(* the text of a sqlite3.OperationalError raised at the statement `pc` *)
OperationalErrorText(pc) == <<"database", "is", "locked", pc>>

---------------------------------------------------------------------------
(* add_subscriber (lines 210-279) *)

(* lines 210-213: the id and the timestamp are drawn before the lock *)
add_subscriber_call(t, c) ==
    /\ Callable(t)
    /\ uuidCtr + 3 + SumDraws(Threads) <= MaxUuid
    /\ th' = [th EXCEPT ![t] =
                [Idle EXCEPT !.pc = "connect", !.op = "add_subscriber",
                             !.signup = c.signup, !.ip_address = c.ip_address,
                             !.subscriber_id = uuid4(1), !.now = IsoFormat(clock)]]
    /\ uuidCtr' = uuidCtr + 1
    /\ UNCHANGED <<subscribers, events, lock, conn, clock, cd, loop>>

(* lines 121-127: take the lock, open the connection *)
get_connection(t) ==
    /\ th[t].pc = "connect"
    /\ LockFree
    /\ lock' = t
    /\ conn' = [conn EXCEPT ![t] = Connect]
    /\ th' = [th EXCEPT ![t].pc =
                CASE th[t].op = "add_subscriber" -> "insert"
                  [] th[t].op = "export_subscribers" -> "export_query"
                  [] OTHER -> "analytics_query"]
    /\ UNCHANGED <<subscribers, events, uuidCtr, clock, cd, loop>>

(* lines 216-240: INSERT INTO subscribers; IntegrityError goes to line 252 *)
add_subscriber_insert(t) ==
    /\ th[t].pc = "insert"
    /\ LET row == NewRow(th[t].subscriber_id, th[t].signup, th[t].ip_address,
                         uuid4(1), th[t].now)
       IN  IF IntegrityError(conn[t].subs, row)
           THEN /\ th' = [th EXCEPT ![t].pc = "select"]
                /\ UNCHANGED conn
           ELSE /\ th' = [th EXCEPT ![t].pc = "log_signup"]
                /\ conn' = [conn EXCEPT ![t].subs = @ \cup {row}]
    /\ uuidCtr' = uuidCtr + 1
    /\ UNCHANGED <<subscribers, events, lock, clock, cd, loop>>

(* lines 243-247: log_event(conn, subscriber_id, "signup", {...}) *)
add_subscriber_log_signup(t) ==
    /\ th[t].pc = "log_signup"
    /\ conn' = [conn EXCEPT ![t] =
                  log_event(@, uuid4(1), th[t].subscriber_id, "signup",
                            [source |-> th[t].signup.source,
                             campaign |-> th[t].signup.campaign,
                             ip |-> th[t].ip_address])]
    /\ uuidCtr' = uuidCtr + 1
    /\ th' = [th EXCEPT ![t].pc = "commit"]
    /\ UNCHANGED <<subscribers, events, lock, clock, cd, loop>>

(* lines 249-250: conn.commit(); return subscriber_id *)
add_subscriber_commit(t) ==
    /\ th[t].pc = "commit"
    /\ Commit(t)
    /\ Leave(t, Return(th[t].subscriber_id))
    /\ UNCHANGED <<uuidCtr, clock, cd, loop>>

(* lines 252-260 and 279: fetch the existing row; raise unless it was *)
(* unsubscribed                                                       *)
add_subscriber_select(t) ==
    /\ th[t].pc = "select"
    /\ LET result == SelectByEmail(conn[t].subs, th[t].signup.email)
       IN  IF WasUnsubscribed(result)
           THEN /\ th' = [th EXCEPT ![t].pc = "update", ![t].result = result]
                /\ UNCHANGED <<subscribers, events, lock, conn>>
           ELSE /\ Rollback(t)
                /\ conn' = [conn EXCEPT ![t] = NoConn]
                /\ lock' = 0
                /\ th' = [th EXCEPT ![t].pc = "done", ![t].result = result,
                                    ![t].ret = Raise("ValueError", EmailAlreadySubscribed)]
    /\ UNCHANGED <<uuidCtr, clock, cd, loop>>

(* lines 261-269: UPDATE subscribers SET ... WHERE email = ? *)
add_subscriber_update(t) ==
    /\ th[t].pc = "update"
    /\ conn' = [conn EXCEPT ![t].subs = UpdateByEmail(@, th[t].signup, th[t].now)]
    /\ th' = [th EXCEPT ![t].pc = "log_resubscribe"]
    /\ UNCHANGED <<subscribers, events, lock, uuidCtr, clock, cd, loop>>

(* lines 271-274: log_event(conn, result[0], "resubscribe", {...}) *)
add_subscriber_log_resubscribe(t) ==
    /\ th[t].pc = "log_resubscribe"
    /\ conn' = [conn EXCEPT ![t] =
                  log_event(@, uuid4(1), th[t].result[1], "resubscribe",
                            [source |-> th[t].signup.source,
                             campaign |-> th[t].signup.campaign])]
    /\ uuidCtr' = uuidCtr + 1
    /\ th' = [th EXCEPT ![t].pc = "commit_resubscribe"]
    /\ UNCHANGED <<subscribers, events, lock, clock, cd, loop>>

(* lines 276-277: conn.commit(); return result[0] *)
add_subscriber_commit_resubscribe(t) ==
    /\ th[t].pc = "commit_resubscribe"
    /\ Commit(t)
    /\ Leave(t, Return(th[t].result[1]))
    /\ UNCHANGED <<uuidCtr, clock, cd, loop>>

(* a statement or the commit raises an error other than IntegrityError   *)
(* (sqlite3.OperationalError: locked, disk, ...): it leaves the `with`,  *)
(* get_connection's finally closes the connection (lines 128-131)        *)
InStore ==
    { "insert", "log_signup", "commit", "select", "update", "log_resubscribe",
      "commit_resubscribe", "export_query", "analytics_query" }

store_failure(t) ==
    /\ th[t].pc \in InStore
    /\ Rollback(t)
    /\ Leave(t, Raise("OperationalError", OperationalErrorText(th[t].pc)))
    /\ UNCHANGED <<uuidCtr, clock, cd, loop>>

---------------------------------------------------------------------------
(* export_subscribers (lines 354-368) and get_analytics (lines 294-352) *)

export_subscribers_call(t, campaign) ==
    /\ Callable(t)
    /\ th' = [th EXCEPT ![t] =
                [Idle EXCEPT !.pc = "connect", !.op = "export_subscribers",
                             !.campaign = campaign]]
    /\ UNCHANGED <<subscribers, events, lock, conn, uuidCtr, clock, cd, loop>>

(* lines 359-368: the query, ORDER BY created_at DESC, the rows as a list *)
export_subscribers_query(t) ==
    /\ th[t].pc = "export_query"
    /\ \E rows \in Orderings(ExportRows(conn[t].subs, th[t].campaign), "created_at") :
          Leave(t, Return(rows))
    /\ Rollback(t)
    /\ UNCHANGED <<uuidCtr, clock, cd, loop>>

(* line 296: cutoff_date is computed before the lock is taken *)
get_analytics_call(t, days) ==
    /\ Callable(t)
    /\ th' = [th EXCEPT ![t] =
                [Idle EXCEPT !.pc = "connect", !.op = "get_analytics", !.days = days,
                             !.cutoff_date = IsoFormat(MinusDays(clock, days))]]
    /\ UNCHANGED <<subscribers, events, lock, conn, uuidCtr, clock, cd, loop>>

(* lines 298-352: the counts, the three windowed aggregates, the countdown *)
get_analytics_query(t) ==
    /\ th[t].pc = "analytics_query"
    /\ LET window == WindowRows(conn[t].subs, th[t].cutoff_date)
       IN  \E daily_signups \in Orderings(DailyGroups(window), "date"),
              sources \in Orderings(SourceGroups(window), "count"),
              campaigns \in Orderings(CampaignGroups(window), "count") :
                /\ conn' = [conn EXCEPT ![t] = NoConn]
                /\ lock' = 0
                /\ th' = [th EXCEPT ![t].pc = "done", ![t].now = clock,
                            ![t].ret = Return(AnalyticsSnapshot(conn[t].subs, daily_signups,
                                                                sources, campaigns, clock))]
    /\ Rollback(t)
    /\ UNCHANGED <<uuidCtr, clock, cd, loop>>

---------------------------------------------------------------------------
(* Environment *)

(* An unsubscribe: "a soft state change" of the row (spec section 3). The *)
(* service has no endpoint for it; it is a write of another client of the *)
(* database file, serialised with the store's transactions by SQLite.     *)
unsubscribe(e) ==
    /\ lock = 0
    /\ \E r \in subscribers :
          /\ r.email = e
          /\ r.unsubscribed_at = NULL
          /\ subscribers' = (subscribers \ {r}) \cup
                { [r EXCEPT !.is_active = 0, !.unsubscribed_at = IsoFormat(clock),
                            !.updated_at = IsoFormat(clock)] }
    /\ UNCHANGED <<events, lock, conn, th, uuidCtr, clock, cd, loop>>

(* time passes *)
Tick(instants) ==
    /\ \E t \in instants : ~NotBefore(clock, t) /\ clock' = t
    /\ UNCHANGED <<subscribers, events, lock, conn, th, uuidCtr, cd, loop>>

---------------------------------------------------------------------------
(* The store under concurrent callers *)

NoCountdown == [computed |-> FALSE, now |-> launch_date, launch_countdown |-> launch_countdown(launch_date)]
NoLoop == [started |-> FALSE]   \* the event loop is not part of this specification

(* init_database (lines 133-208): the tables exist and are empty *)
Init ==
    /\ subscribers = {}
    /\ events = <<>>
    /\ lock = 0
    /\ conn = [t \in Threads |-> NoConn]
    /\ th = [t \in Threads |-> Idle]
    /\ uuidCtr = 0
    /\ clock = StartTime
    /\ cd = NoCountdown
    /\ loop = NoLoop

Writer(t) ==
    \/ \E c \in AddCalls : add_subscriber_call(t, c)
    \/ get_connection(t)
    \/ add_subscriber_insert(t)
    \/ add_subscriber_log_signup(t)
    \/ add_subscriber_commit(t)
    \/ add_subscriber_select(t)
    \/ add_subscriber_update(t)
    \/ add_subscriber_log_resubscribe(t)
    \/ add_subscriber_commit_resubscribe(t)

Next ==
    \/ \E t \in Threads : Writer(t)
    \/ \E t \in Threads : store_failure(t)
    \/ \E e \in Emails : unsubscribe(e)
    \/ Tick(SignupTimes)

Spec == Init /\ [][Next]_vars

---------------------------------------------------------------------------
(* The store of a service started on a database file that already holds a *)
(* subscriber (init_database creates the tables only IF NOT EXISTS), with  *)
(* one signup caller                                                       *)

InitRestart ==
    /\ subscribers =
          { NewRow(101, FullSignup("b@example.com"), "198.51.100.9", 102,
                   IsoFormat(StartTime)) }
    /\ events =
          << EventRow(103, 101, "signup",
                      [source |-> "twitter", campaign |-> "summer", ip |-> "198.51.100.9"],
                      IsoFormat(StartTime)) >>
    /\ lock = 0
    /\ conn = [t \in Threads |-> NoConn]
    /\ th = [t \in Threads |-> Idle]
    /\ uuidCtr = 0
    /\ clock = StartTime
    /\ cd = NoCountdown
    /\ loop = NoLoop

NextRestart ==
    \/ Writer(1)
    \/ store_failure(1)
    \/ \E e \in Emails : unsubscribe(e)
    \/ Tick(SignupTimes)

SpecRestart == InitRestart /\ [][NextRestart]_vars

---------------------------------------------------------------------------
(* The store of a service started on a database file in which another    *)
(* client has cleared is_active without setting unsubscribed_at (the two *)
(* columns of lines 151 and 157) on a's row; one signup caller           *)

InitFlags ==
    /\ subscribers =
          { [ NewRow(101, DefaultSignup("a@example.com"), None, 102,
                     IsoFormat(StartTime))
                EXCEPT !.is_active = 0 ] }
    /\ events =
          << EventRow(103, 101, "signup",
                      [source |-> "landing_page", campaign |-> "early_access_2025",
                       ip |-> None],
                      IsoFormat(StartTime)) >>
    /\ lock = 0
    /\ conn = [t \in Threads |-> NoConn]
    /\ th = [t \in Threads |-> Idle]
    /\ uuidCtr = 0
    /\ clock = StartTime
    /\ cd = NoCountdown
    /\ loop = NoLoop

SpecFlags == InitFlags /\ [][NextRestart]_vars

---------------------------------------------------------------------------
(* The store with one signup caller (thread 1) and one concurrent reader *)
(* (thread 2)                                                            *)

Reader(t) ==
    \/ \E f \in CampaignFilters : export_subscribers_call(t, f)
    \/ \E d \in WindowDays : get_analytics_call(t, d)
    \/ get_connection(t)
    \/ export_subscribers_query(t)
    \/ get_analytics_query(t)
    \/ store_failure(t)

NextReads ==
    \/ Writer(1)
    \/ Reader(2)
    \/ \E e \in Emails : unsubscribe(e)
    \/ Tick(Times)

SpecReads == Init /\ [][NextReads]_vars

---------------------------------------------------------------------------
(* The store with every thread a reader (an unfiltered export, the 30-day *)
(* analytics) and thread 1 also a signup caller                           *)

NextReaders ==
    \/ \E t \in Threads : export_subscribers_call(t, None)
    \/ \E t \in Threads : get_analytics_call(t, 30)
    \/ \E t \in Threads : get_connection(t)
    \/ \E t \in Threads : export_subscribers_query(t)
    \/ \E t \in Threads : get_analytics_query(t)
    \/ \E c \in AddCalls : add_subscriber_call(1, c)
    \/ add_subscriber_insert(1)
    \/ add_subscriber_log_signup(1)
    \/ add_subscriber_commit(1)
    \/ add_subscriber_select(1)
    \/ Tick(SignupTimes)

SpecReaders == Init /\ [][NextReaders]_vars

---------------------------------------------------------------------------
(* The launch countdown over instants around the launch *)

MaxCountdownDays == 1

(* now - launch_date in whole seconds: up to MaxCountdownDays days, and *)
(* the first, second and last hour, minute and second of each           *)
CountdownOffsets ==
    { sign * (d * SecondsPerDay + h * SecondsPerHour + m * SecondsPerMinute + x) :
        sign \in {-1, 1}, d \in 0..MaxCountdownDays, h \in {0, 1, 23},
        m \in {0, 1, 59}, x \in {0, 1, 59} }

CountdownInstants ==
    { DT(s, us) : s \in CountdownOffsets, us \in {0, 1, MicrosPerSecond - 1} }

InitCountdown ==
    /\ subscribers = {}
    /\ events = <<>>
    /\ lock = 0
    /\ conn = [t \in Threads |-> NoConn]
    /\ th = [t \in Threads |-> Idle]
    /\ uuidCtr = 0
    /\ clock \in CountdownInstants
    /\ cd = NoCountdown
    /\ loop = NoLoop

(* lines 334-351 at the instant `clock` *)
compute_countdown ==
    /\ ~cd.computed
    /\ cd' = [computed |-> TRUE, now |-> clock, launch_countdown |-> launch_countdown(clock)]
    /\ UNCHANGED <<subscribers, events, lock, conn, th, uuidCtr, clock, loop>>

NextCountdown == compute_countdown

SpecCountdown == InitCountdown /\ [][NextCountdown]_vars

---------------------------------------------------------------------------
(* The service: the routes of create_newsletter_app and send_welcome_email *)
(* on the event loop                                                       *)

MaxRequests == 2

Requests == 1..MaxRequests

NoTask == <<>>
HandlerTask(r) == <<"handler", r>>
EmailTask(r) == <<"email", r>>

(* config.admin_token *)
AdminToken == "musequill-admin-2025"

(* the `days` query values of GET /analytics: below, at and above the bounds *)
AnalyticsDays == {0, 1, 365, 366}

(* a request: the route, and what the route reads of it; for a signup the *)
(* body, the X-Forwarded-For header (NULL: absent) and the peer address   *)
(* (None: request.client is None)                                         *)
Request(route, signup, forwarded, client, days, token) ==
    [route |-> route, signup |-> signup, forwarded |-> forwarded, client |-> client,
     days |-> days, token |-> token]

(* GET /export?campaign=&format=&token= *)
ExportRequest(campaign, format, token) ==
    [route |-> "/export", signup |-> NoSignup, forwarded |-> NULL,
     client |-> "192.0.2.1", days |-> 0, token |-> token,
     campaign |-> campaign, format |-> format]

SignupRoutes == {"/signup", "/register", "/contact"}

(* the signup requests *)
SignupInputs ==
    { Request("/signup", DefaultSignup("a@example.com"), NULL, "192.0.2.1", 0, None),
      Request("/register", FullSignup("a@example.com"),
              <<"203.0.113.7", "10.0.0.1">>, "192.0.2.1", 0, None),
      Request("/contact", DefaultSignup("b@example.com"), NULL, None, 0, None) }

(* requests of every route *)
RouteInputs ==
    { Request("/signup", DefaultSignup("a@example.com"), NULL, "192.0.2.1", 0, None),
      Request("/contact", DefaultSignup("b@example.com"), NULL, None, 0, None),
      Request("/track", NoSignup, NULL, "192.0.2.1", 0, None),
      Request("/stats", NoSignup, NULL, "192.0.2.1", 0, None),
      Request("/health", NoSignup, NULL, "192.0.2.1", 0, None),
      Request("/analytics", NoSignup, NULL, "192.0.2.1", 30, "guess"),
      Request("/register", DefaultSignup("a@example.com"), NULL, "192.0.2.1", 0, None),
      Request("/admin", NoSignup, NULL, "192.0.2.1", 0, AdminToken),
      ExportRequest(None, "json", AdminToken),
      ExportRequest("early_access_2025", "csv", AdminToken),
      ExportRequest(None, "xml", AdminToken),
      ExportRequest(None, "json", "guess") } \cup
    { Request("/analytics", NoSignup, NULL, "192.0.2.1", days, AdminToken) :
        days \in AnalyticsDays }

NoRequest == Request(None, NoSignup, NULL, None, 0, None)

(* get_client_ip (lines 496-501) *)
get_client_ip(request) ==
    IF request.forwarded # NULL THEN request.forwarded[1]
    ELSE IF request.client # None THEN request.client ELSE "unknown"

(* verify_admin (lines 503-507): TRUE, or HTTPException 403 *)
verify_admin(token) == token = AdminToken

(* Query(default=30, ge=1, le=365) of line 561: FastAPI validates the value *)
(* and answers 422 when it is out of range; the route is then not called    *)
DaysInRangeMutNoUpper(days) == days >= 1

DaysInRange(days) == days >= 1 /\ days <= 365

(* Query(default="json", pattern="^(json|csv)$") of line 571 *)
FormatValid(format) == format \in {"json", "csv"}

(* csv.DictWriter over the rows (lines 581-585): the header line and one *)
(* line per row; nothing at all for an empty list                        *)
CsvData(rows) ==
    IF rows = <<>> THEN <<>>
    ELSE <<"header">> \o [i \in DOMAIN rows |-> <<"line", rows[i]>>]

(* Python's s[:n] *)
FirstN(s, n) == SubSeq(s, 1, IF Len(s) < n THEN Len(s) ELSE n)

(* Python's `part in text` *)
In(part, text) ==
    \E i \in 0..(Len(text) - Len(part)) : SubSeq(text, i + 1, i + Len(part)) = part

(* add_subscriber run to its end by one caller (lines 210-279): the tables *)
(* it leaves, what it returns or raises, the uuid4() values it drew        *)
add_subscriber(signup, ip_address) ==
    LET subscriber_id == uuid4(1)
        now == IsoFormat(clock)
        row == NewRow(subscriber_id, signup, ip_address, uuid4(2), now)
        result == SelectByEmail(subscribers, signup.email)
    IN  IF ~IntegrityError(subscribers, row)
        THEN [ conn |-> log_event([Connect EXCEPT !.subs = @ \cup {row}], uuid4(3),
                                  subscriber_id, "signup",
                                  [source |-> signup.source, campaign |-> signup.campaign,
                                   ip |-> ip_address]),
               ret |-> Return(subscriber_id), draws |-> 3 ]
        ELSE IF WasUnsubscribed(result)
        THEN [ conn |-> log_event([Connect EXCEPT !.subs = UpdateByEmail(@, signup, now)],
                                  uuid4(3), result[1], "resubscribe",
                                  [source |-> signup.source, campaign |-> signup.campaign]),
               ret |-> Return(result[1]), draws |-> 3 ]
        ELSE [ conn |-> Connect,
               ret |-> Raise("ValueError", EmailAlreadySubscribed), draws |-> 2 ]

(* add_subscriber when its INSERT raises sqlite3.OperationalError: the id *)
(* and the token are drawn, nothing is committed (lines 128-131)          *)
add_subscriber_fails ==
    [ conn |-> Connect,
      ret |-> Raise("OperationalError", OperationalErrorText("insert")), draws |-> 2 ]

(* the results get_analytics(days) can return on the committed tables at *)
(* the instant `clock` (lines 294-352)                                   *)
db_get_analytics(days) ==
    LET window == WindowRows(subscribers, IsoFormat(MinusDays(clock, days)))
    IN  { AnalyticsSnapshot(subscribers, daily_signups, sources, campaigns, clock) :
            daily_signups \in Orderings(DailyGroups(window), "date"),
            sources \in Orderings(SourceGroups(window), "count"),
            campaigns \in Orderings(CampaignGroups(window), "count") }

(* NewsletterResponse and HTTPException; subscriber_id 0 is None *)
NewsletterResponse(success, message, subscriber_id) ==
    [status |-> 200, success |-> success, message |-> message,
     subscriber_id |-> subscriber_id]

HTTPException(status_code, detail) ==
    [status |-> status_code, success |-> FALSE, message |-> detail, subscriber_id |-> 0]

NoResponse == [status |-> 0, success |-> FALSE, message |-> <<>>, subscriber_id |-> 0]

(* the message texts of lines 527, 535 and 541 *)
OnTheList ==
    <<"You're", "on", "the", "list!", "Check", "your", "email", "for",
      "exclusive", "updates.">>
AlreadyOnList ==
    <<"You're", "already", "on", "our", "list!", "Thanks", "for", "your",
      "continued", "interest.">>
SignupFailed == <<"Signup", "failed.", "Please", "try", "again.">>

(* what process_signup answers to the outcome of add_subscriber (lines 525-541) *)
SignupResponseMutConflict(ret) ==
    CASE ret.kind = "return" -> NewsletterResponse(TRUE, OnTheList, ret.value)
      [] ret.kind = "ValueError" -> HTTPException(400, ret.detail)
      [] OTHER -> HTTPException(500, SignupFailed)

SignupResponseMutLeak(ret) ==
    CASE ret.kind = "return" -> NewsletterResponse(TRUE, OnTheList, ret.value)
      [] ret.kind = "ValueError" ->
           IF In(<<"already", "subscribed">>, ret.detail)
           THEN NewsletterResponse(TRUE, AlreadyOnList, 0)
           ELSE HTTPException(400, ret.detail)
      [] OTHER -> NewsletterResponse(FALSE, ret.detail, 0)

SignupResponse(ret) ==
    CASE ret.kind = "return" -> NewsletterResponse(TRUE, OnTheList, ret.value)
      [] ret.kind = "ValueError" ->
           IF In(<<"already", "subscribed">>, ret.detail)
           THEN NewsletterResponse(TRUE, AlreadyOnList, 0)
           ELSE HTTPException(400, ret.detail)
      [] OTHER -> HTTPException(500, SignupFailed)

(* lines 514-521: the welcome-email task is created only after *)
(* add_subscriber has returned                                 *)
ScheduledTasksMutAlways(r, ret) == <<EmailTask(r)>>

ScheduledTasks(r, ret) ==
    IF ret.kind = "return" THEN <<EmailTask(r)>> ELSE <<>>

(* the loop of a service that has just started (lines 491-493); *)
(* smtp_configured: SMTP_USERNAME and SMTP_PASSWORD are both set *)
NewLoop(smtp_configured) ==
    [ started |-> TRUE,
      smtp_configured |-> smtp_configured,
      ready |-> <<>>,
      running |-> NoTask,
      request |-> [r \in Requests |-> NoRequest],
      pc |-> [r \in Requests |-> "none"],
      outcome |-> [r \in Requests |-> NoRet],
      response |-> [r \in Requests |-> NoResponse],
      window |-> [r \in Requests |-> 0],
      email |-> [r \in Requests |-> "none"],
      token |-> [r \in Requests |-> 0] ]

InitLoop ==
    /\ subscribers = {}
    /\ events = <<>>
    /\ lock = 0
    /\ conn = [t \in Threads |-> NoConn]
    /\ th = [t \in Threads |-> Idle]
    /\ uuidCtr = 0
    /\ clock = StartTime
    /\ cd = NoCountdown
    /\ \E configured \in BOOLEAN : loop = NewLoop(configured)

(* the server accepts a request and schedules the route's coroutine on the *)
(* loop                                                                    *)
receive_request(r, request) ==
    /\ loop.pc[r] = "none"
    /\ \A q \in Requests : q < r => loop.pc[q] # "none"
    /\ loop' = [loop EXCEPT !.request[r] = request, !.pc[r] = "queued",
                            !.ready = Append(@, HandlerTask(r))]
    /\ UNCHANGED <<subscribers, events, lock, conn, th, uuidCtr, clock, cd>>

(* the loop is free and the coroutine of request r is the next ready task *)
Runs(r, route) ==
    /\ loop.running = NoTask
    /\ loop.ready # <<>> /\ Head(loop.ready) = HandlerTask(r)
    /\ loop.pc[r] = "queued"
    /\ loop.request[r].route \in route

(* POST /signup, /register, /contact (lines 544-557): process_signup      *)
(* (lines 510-541) runs without suspending; then the framework sends the  *)
(* response. `suspends` is whether that send has to wait for the          *)
(* transport (the coroutine then goes back to the loop and is resumed     *)
(* behind the tasks already ready).                                       *)
process_signup(r, store_fails, suspends) ==
    /\ Runs(r, SignupRoutes)
    /\ LET ip_address == get_client_ip(loop.request[r])
           signup == loop.request[r].signup
           out == IF store_fails THEN add_subscriber_fails
                  ELSE add_subscriber(signup, ip_address)
           scheduled == ScheduledTasks(r, out.ret)
           resumed == IF suspends THEN <<HandlerTask(r)>> ELSE <<>>
       IN  /\ subscribers' = out.conn.subs
           /\ events' = out.conn.evts
           /\ uuidCtr' = uuidCtr + out.draws
           /\ loop' = [loop EXCEPT
                         !.ready = Tail(@) \o scheduled \o resumed,
                         !.email[r] = IF out.ret.kind = "return" THEN "scheduled" ELSE "none",
                         !.token[r] = IF out.ret.kind = "return" THEN out.ret.value ELSE 0,
                         !.outcome[r] = out.ret,
                         !.response[r] = SignupResponse(out.ret),
                         !.pc[r] = IF suspends THEN "sending" ELSE "delivered"]
    /\ UNCHANGED <<lock, conn, th, clock, cd>>

(* the suspended send is resumed: the response goes out *)
resume_response(r) ==
    /\ loop.running = NoTask
    /\ loop.ready # <<>> /\ Head(loop.ready) = HandlerTask(r)
    /\ loop.pc[r] = "sending"
    /\ loop' = [loop EXCEPT !.ready = Tail(@), !.pc[r] = "delivered"]
    /\ UNCHANGED <<subscribers, events, lock, conn, th, uuidCtr, clock, cd>>

(* GET /analytics (lines 559-566): the admin token, then the range of *)
(* `days`, then db.get_analytics(days)                                 *)
get_analytics(r) ==
    /\ Runs(r, {"/analytics"})
    /\ LET days == loop.request[r].days
       IN  IF ~verify_admin(loop.request[r].token)
           THEN loop' = [loop EXCEPT
                           !.ready = Tail(@), !.pc[r] = "delivered",
                           !.response[r] = HTTPException(403, <<"Invalid", "admin", "token">>)]
           ELSE IF ~DaysInRange(days)
           THEN loop' = [loop EXCEPT
                           !.ready = Tail(@), !.pc[r] = "delivered",
                           !.response[r] = [status |-> 422, detail |-> <<"query", "days">>]]
           ELSE \E analytics \in db_get_analytics(days) :
                  loop' = [loop EXCEPT
                             !.ready = Tail(@), !.pc[r] = "delivered",
                             !.window[r] = days,
                             !.outcome[r] = Return(analytics),
                             !.response[r] = [status |-> 200, analytics |-> analytics]]
    /\ UNCHANGED <<subscribers, events, lock, conn, th, uuidCtr, clock, cd>>

(* GET /export (lines 568-592): the admin token, then the pattern of *)
(* `format`, then db.export_subscribers(campaign) as JSON or as CSV  *)
export_subscribers(r) ==
    /\ Runs(r, {"/export"})
    /\ IF ~verify_admin(loop.request[r].token)
       THEN loop' = [loop EXCEPT
                       !.ready = Tail(@), !.pc[r] = "delivered",
                       !.response[r] = HTTPException(403, <<"Invalid", "admin", "token">>)]
       ELSE IF ~FormatValid(loop.request[r].format)
       THEN loop' = [loop EXCEPT
                       !.ready = Tail(@), !.pc[r] = "delivered",
                       !.response[r] = [status |-> 422, detail |-> <<"query", "format">>]]
       ELSE \E rows \in Orderings(ExportRows(subscribers, loop.request[r].campaign),
                                  "created_at") :
              loop' = [loop EXCEPT
                         !.ready = Tail(@), !.pc[r] = "delivered",
                         !.outcome[r] = Return(rows),
                         !.response[r] =
                            IF loop.request[r].format = "csv"
                            THEN [status |-> 200, csv_data |-> CsvData(rows),
                                  count |-> Len(rows)]
                            ELSE [status |-> 200, subscribers |-> rows,
                                  count |-> Len(rows)]]
    /\ UNCHANGED <<subscribers, events, lock, conn, th, uuidCtr, clock, cd>>

(* GET /admin (lines 626-693): the admin token, then the page rendered *)
(* from db.get_analytics(30)                                           *)
admin_dashboard(r) ==
    /\ Runs(r, {"/admin"})
    /\ IF ~verify_admin(loop.request[r].token)
       THEN loop' = [loop EXCEPT
                       !.ready = Tail(@), !.pc[r] = "delivered",
                       !.response[r] = HTTPException(403, <<"Invalid", "admin", "token">>)]
       ELSE \E analytics \in db_get_analytics(30) :
              loop' = [loop EXCEPT
                         !.ready = Tail(@), !.pc[r] = "delivered",
                         !.window[r] = 30,
                         !.outcome[r] = Return(analytics),
                         !.response[r] =
                            [status |-> 200,
                             html |-> [launch_countdown |-> analytics.launch_countdown,
                                       total_subscribers |-> analytics.total_subscribers,
                                       active_subscribers |-> analytics.active_subscribers,
                                       confirmed_subscribers |-> analytics.confirmed_subscribers,
                                       days |-> Len(analytics.daily_signups),
                                       sources |-> analytics.sources,
                                       daily_signups |->
                                           FirstN(analytics.daily_signups, 10)]]]
    /\ UNCHANGED <<subscribers, events, lock, conn, th, uuidCtr, clock, cd>>

(* GET /stats (lines 594-602): no try; an exception of get_analytics is *)
(* answered by the framework's plain 500                                *)
public_stats(r, store_fails) ==
    /\ Runs(r, {"/stats"})
    /\ IF store_fails
       THEN loop' = [loop EXCEPT
                       !.ready = Tail(@), !.pc[r] = "delivered",
                       !.outcome[r] = Raise("OperationalError",
                                            OperationalErrorText("analytics_query")),
                       !.response[r] = [status |-> 500,
                                        message |-> <<"Internal", "Server", "Error">>]]
       ELSE \E analytics \in db_get_analytics(30) :
              loop' = [loop EXCEPT
                         !.ready = Tail(@), !.pc[r] = "delivered",
                         !.window[r] = 30,
                         !.outcome[r] = Return(analytics),
                         !.response[r] =
                            [status |-> 200,
                             total_subscribers |-> analytics.total_subscribers,
                             launch_countdown |-> analytics.launch_countdown,
                             growth_trend |-> Len(analytics.daily_signups)]]
    /\ UNCHANGED <<subscribers, events, lock, conn, th, uuidCtr, clock, cd>>

(* POST /track (lines 604-614): the event is appended to analytics.log; an *)
(* exception of open() or write() is answered with its text                *)
track_event(r, write_fails) ==
    /\ Runs(r, {"/track"})
    /\ LET e == Raise("PermissionError",
                      <<"[Errno 13]", "Permission", "denied:", "'analytics.log'">>)
       IN  IF write_fails
           THEN loop' = [loop EXCEPT
                           !.ready = Tail(@), !.pc[r] = "delivered",
                           !.outcome[r] = e,
                           !.response[r] = [status |-> 200, success |-> FALSE,
                                            error |-> e.detail]]
           ELSE loop' = [loop EXCEPT
                           !.ready = Tail(@), !.pc[r] = "delivered",
                           !.response[r] = [status |-> 200, success |-> TRUE,
                                            message |-> <<"Event", "tracked">>]]
    /\ UNCHANGED <<subscribers, events, lock, conn, th, uuidCtr, clock, cd>>

(* GET /health (lines 616-624); init_database has created the file *)
health_check(r) ==
    /\ Runs(r, {"/health"})
    /\ loop' = [loop EXCEPT
                  !.ready = Tail(@), !.pc[r] = "delivered",
                  !.response[r] = [status |-> 200, health |-> "healthy",
                                   service |-> "newsletter", database |-> "connected"]]
    /\ UNCHANGED <<subscribers, events, lock, conn, th, uuidCtr, clock, cd>>

(* the loop runs the task of send_welcome_email (lines 378-461): without *)
(* SMTP credentials it returns at once; otherwise it opens the SMTP      *)
(* connection, a blocking call on the loop's thread                      *)
send_welcome_email_start(r) ==
    /\ loop.running = NoTask
    /\ loop.ready # <<>> /\ Head(loop.ready) = EmailTask(r)
    /\ loop.email[r] = "scheduled"
    /\ IF loop.smtp_configured
       THEN loop' = [loop EXCEPT !.ready = Tail(@), !.running = EmailTask(r),
                                 !.email[r] = "connect"]
       ELSE loop' = [loop EXCEPT !.ready = Tail(@), !.email[r] = "skipped"]
    /\ UNCHANGED <<subscribers, events, lock, conn, th, uuidCtr, clock, cd>>

(* lines 461-466: SMTP(...), starttls(), login(), send_message(), each a *)
(* blocking call; the coroutine never awaits, the loop runs nothing else *)
SmtpNext(step) ==
    CASE step = "connect" -> "starttls"
      [] step = "starttls" -> "login"
      [] step = "login" -> "send_message"
      [] OTHER -> "sent"

send_welcome_email_smtp(r) ==
    /\ loop.running = EmailTask(r)
    /\ loop' = [loop EXCEPT !.email[r] = SmtpNext(@),
                            !.running = IF SmtpNext(loop.email[r]) = "sent"
                                        THEN NoTask ELSE @]
    /\ UNCHANGED <<subscribers, events, lock, conn, th, uuidCtr, clock, cd>>

(* lines 468-469: any exception of the send is logged, the task ends *)
send_welcome_email_failMutRaises(r) ==
    /\ loop.running = EmailTask(r)
    /\ loop' = [loop EXCEPT !.email[r] = "failed", !.running = NoTask,
                            !.response[r] = HTTPException(500, SignupFailed)]
    /\ UNCHANGED <<subscribers, events, lock, conn, th, uuidCtr, clock, cd>>

send_welcome_email_fail(r) ==
    /\ loop.running = EmailTask(r)
    /\ loop' = [loop EXCEPT !.email[r] = "failed", !.running = NoTask]
    /\ UNCHANGED <<subscribers, events, lock, conn, th, uuidCtr, clock, cd>>

(* the signup routes and the welcome email, with or without SMTP *)
(* credentials, on a database other clients unsubscribe in        *)
NextLoop ==
    \/ \E r \in Requests, q \in SignupInputs : receive_request(r, q)
    \/ \E r \in Requests, f, s \in BOOLEAN : process_signup(r, f, s)
    \/ \E r \in Requests : resume_response(r)
    \/ \E r \in Requests : send_welcome_email_start(r)
    \/ \E r \in Requests : send_welcome_email_smtp(r)
    \/ \E r \in Requests : send_welcome_email_fail(r)
    \/ \E e \in Emails : unsubscribe(e)
    \/ Tick(SignupTimes)

SpecLoop == InitLoop /\ [][NextLoop]_vars

(* every route of the service, under the default configuration           *)
(* (SMTP_USERNAME and SMTP_PASSWORD unset, lines 57-58)                   *)
InitRoutes ==
    /\ subscribers = {}
    /\ events = <<>>
    /\ lock = 0
    /\ conn = [t \in Threads |-> NoConn]
    /\ th = [t \in Threads |-> Idle]
    /\ uuidCtr = 0
    /\ clock = StartTime
    /\ cd = NoCountdown
    /\ loop = NewLoop(FALSE)

NextRoutes ==
    \/ \E r \in Requests, q \in RouteInputs : receive_request(r, q)
    \/ \E r \in Requests, f, s \in BOOLEAN : process_signup(r, f, s)
    \/ \E r \in Requests : resume_response(r)
    \/ \E r \in Requests : get_analytics(r)
    \/ \E r \in Requests : export_subscribers(r)
    \/ \E r \in Requests : admin_dashboard(r)
    \/ \E r \in Requests, f \in BOOLEAN : public_stats(r, f)
    \/ \E r \in Requests, f \in BOOLEAN : track_event(r, f)
    \/ \E r \in Requests : health_check(r)
    \/ \E r \in Requests : send_welcome_email_start(r)
    \/ Tick(SignupTimes)

SpecRoutes == InitRoutes /\ [][NextRoutes]_vars

---------------------------------------------------------------------------
(* Claims about add_subscriber under concurrent callers (Spec) *)

RowsOf(e) == {r \in subscribers : r.email = e}

EventsOf(subscriber_id, event_type) ==
    { i \in DOMAIN events : /\ events[i].subscriber_id = subscriber_id
                            /\ events[i].event_type = event_type }

(* threads whose add_subscriber call for email e has ended *)
AddDone(e) ==
    { t \in Threads : /\ th[t].op = "add_subscriber"
                      /\ th[t].pc = "done"
                      /\ th[t].signup.email = e }

(* thread t takes a step of its operation that is not a store failure *)
Steps(t, pc) ==
    /\ th[t].pc = pc
    /\ th'[t].pc # pc
    /\ th'[t].ret.kind # "OperationalError"

(* C1: in every reachable state no two subscriber rows have the same email, *)
(* whatever their is_active value.                                          *)
C1_EmailUnique ==
    \A r1, r2 \in subscribers : r1.email = r2.email => r1 = r2

(* a signup for an unsubscribed email has been served (by reactivation) *)
C1_Witness ==
    \E r \in subscribers :
        /\ EventsOf(r.id, "resubscribe") # {}
        /\ r.is_active = 1
        /\ Cardinality(RowsOf(r.email)) = 1

(* C2: when several callers have run add_subscriber with the same email e    *)
(* and the row of e was created by one of these calls (and was not touched   *)
(* by an unsubscribe since), exactly one of them returned the row's id, all  *)
(* the others ended with ValueError 'Email already subscribed', and there is *)
(* exactly one row for e.                                                    *)
C2_ConcurrentSignups ==
    \A e \in Emails :
        LET callers == AddDone(e)
            rows == RowsOf(e)
        IN  ( /\ Cardinality(callers) >= 2
              /\ \A t \in callers : th[t].ret.kind # "OperationalError"
              /\ \A r \in rows : /\ r.unsubscribed_at = NULL
                                 /\ EventsOf(r.id, "resubscribe") = {}
                                 /\ \E t \in callers : th[t].subscriber_id = r.id )
            => /\ Cardinality(rows) = 1
               /\ \E w \in callers :
                    /\ th[w].ret = Return(th[w].subscriber_id)
                    /\ \A r \in rows : r.id = th[w].subscriber_id
                    /\ \A t \in callers \ {w} :
                         th[t].ret = Raise("ValueError", EmailAlreadySubscribed)

(* two calls overlapped: the caller that lost drew its id first *)
C2_Witness ==
    \E w, t \in Threads :
        /\ w # t
        /\ {w, t} \subseteq AddDone(th[w].signup.email)
        /\ th[w].ret = Return(th[w].subscriber_id)
        /\ th[t].ret.kind = "ValueError"
        /\ th[t].subscriber_id < th[w].subscriber_id
        /\ \E r \in subscribers : r.id = th[w].subscriber_id

(* C4: add_subscriber for an email whose row exists and is not unsubscribed *)
(* ends with ValueError 'Email already subscribed' and changes nothing: the *)
(* tables are what they were when the call connected, nothing is pending.   *)
C4_AlreadySubscribedNoChange ==
    [][ \A t \in Threads :
          ( /\ Steps(t, "select")
            /\ \E r \in RowsOf(th[t].signup.email) : r.unsubscribed_at = NULL )
          => /\ th'[t].pc = "done"
             /\ th'[t].ret = Raise("ValueError", EmailAlreadySubscribed)
             /\ subscribers' = subscribers
             /\ events' = events
             /\ conn[t].subs = subscribers
             /\ conn[t].evts = events ]_vars

(* a signup with other source and campaign was refused, the row kept its own *)
C4_Witness ==
    \E t \in Threads :
        /\ th[t].pc = "done"
        /\ th[t].op = "add_subscriber"
        /\ th[t].ret.kind = "ValueError"
        /\ \E r \in RowsOf(th[t].signup.email) :
              /\ r.unsubscribed_at = NULL
              /\ r.campaign # th[t].signup.campaign
              /\ r.updated_at # th[t].now

(* C5: add_subscriber for an email whose row is unsubscribed goes on to the *)
(* reactivation, and its commit returns the existing id, leaves the row     *)
(* active with unsubscribed_at NULL and the new signup's source and         *)
(* campaign, appends one 'resubscribe' event for that id, adds no row.      *)
C5_Reactivation ==
    [][ \A t \in Threads :
          /\ ( /\ Steps(t, "select")
               /\ \E r \in RowsOf(th[t].signup.email) : r.unsubscribed_at # NULL )
             => th'[t].pc = "update"
          /\ Steps(t, "commit_resubscribe")
             => \E old \in RowsOf(th[t].signup.email) :
                  /\ old.unsubscribed_at # NULL
                  /\ th'[t].ret = Return(old.id)
                  /\ {r.id : r \in subscribers'} = {r.id : r \in subscribers}
                  /\ Cardinality(subscribers') = Cardinality(subscribers)
                  /\ \E new \in subscribers' :
                       /\ new.id = old.id
                       /\ new.is_active = 1
                       /\ new.unsubscribed_at = NULL
                       /\ new.source = th[t].signup.source
                       /\ new.campaign = th[t].signup.campaign
                  /\ Len(events') = Len(events) + 1
                  /\ SubSeq(events', 1, Len(events)) = events
                  /\ events'[Len(events')].event_type = "resubscribe"
                  /\ events'[Len(events')].subscriber_id = old.id ]_vars

(* a call returned the id of an existing row, whose campaign it replaced *)
C5_Witness ==
    \E t \in Threads :
        /\ th[t].pc = "done"
        /\ th[t].op = "add_subscriber"
        /\ th[t].ret.kind = "return"
        /\ th[t].ret.value # th[t].subscriber_id
        /\ \E r \in subscribers :
              /\ r.id = th[t].ret.value
              /\ r.campaign = th[t].signup.campaign
              /\ \E i \in EventsOf(r.id, "signup") :
                    events[i].event_data # JsonDumps([source |-> r.source,
                                                      campaign |-> r.campaign,
                                                      ip |-> r.ip_address])

(* C6: in every committed state a subscriber row exists if and only if *)
(* exactly one 'signup' event references its id.                       *)
C6_InsertAndEventAtomic ==
    /\ \A r \in subscribers : Cardinality(EventsOf(r.id, "signup")) = 1
    /\ \A i \in DOMAIN events :
          events[i].event_type = "signup"
          => \E r \in subscribers : r.id = events[i].subscriber_id

(* a call failed between its insert and its event append *)
C6_Witness ==
    \E t \in Threads :
        /\ th[t].pc = "done"
        /\ th[t].ret = Raise("OperationalError", OperationalErrorText("log_signup"))
        /\ RowsOf(th[t].signup.email) = {}

(* C7: add_subscriber for an email that has no row inserts (it does not run *)
(* into a conflict), returns an id no row had before, and adds exactly one  *)
(* row.                                                                     *)
C7_DistinctIds ==
    [][ \A t \in Threads :
          /\ ( Steps(t, "insert") /\ RowsOf(th[t].signup.email) = {} )
             => th'[t].pc = "log_signup"
          /\ Steps(t, "commit")
             => /\ th'[t].ret.kind = "return"
                /\ th'[t].ret.value \notin {r.id : r \in subscribers}
                /\ th'[t].ret.value \in {r.id : r \in subscribers'}
                /\ Cardinality(subscribers') = Cardinality(subscribers) + 1 ]_vars

(* two signups with distinct emails have both returned *)
C7_Witness ==
    \E t1, t2 \in Threads :
        /\ th[t1].pc = "done" /\ th[t2].pc = "done"
        /\ th[t1].ret.kind = "return" /\ th[t2].ret.kind = "return"
        /\ th[t1].signup.email # th[t2].signup.email
        /\ th[t1].ret.value # th[t2].ret.value
        /\ Cardinality(subscribers) = 2

---------------------------------------------------------------------------
(* Claims about add_subscriber on a store that holds other rows (SpecRestart) *)

(* C19: the commit of a reactivation changes, of the existing row, only   *)
(* is_active, unsubscribed_at, updated_at, source and campaign (id,       *)
(* email, name, interests, created_at, is_confirmed, confirmation_token,  *)
(* referrer, user_agent, ip_address, utm_* and the rest keep their        *)
(* values), and leaves every other subscriber row unchanged.              *)
C19_ReactivationFrame ==
    [][ \A t \in Threads :
          Steps(t, "commit_resubscribe")
          => \E old \in RowsOf(th[t].signup.email) :
               \E new \in subscribers' :
                  /\ new.id = old.id /\ new.email = old.email
                  /\ new.name = old.name /\ new.interests = old.interests
                  /\ new.created_at = old.created_at
                  /\ new.is_confirmed = old.is_confirmed
                  /\ new.confirmation_token = old.confirmation_token
                  /\ new.referrer = old.referrer /\ new.user_agent = old.user_agent
                  /\ new.ip_address = old.ip_address
                  /\ new.utm_source = old.utm_source /\ new.utm_medium = old.utm_medium
                  /\ new.utm_campaign = old.utm_campaign
                  /\ new.utm_content = old.utm_content
                  /\ new = [old EXCEPT !.is_active = new.is_active,
                                       !.unsubscribed_at = new.unsubscribed_at,
                                       !.updated_at = new.updated_at,
                                       !.source = new.source,
                                       !.campaign = new.campaign]
                  /\ subscribers' \ {new} = subscribers \ {old} ]_vars

(* a signup that sets every field reactivated a row created with the *)
(* defaults, which kept its name, while another row is in the table  *)
C19_Witness ==
    \E t \in Threads :
        /\ th[t].pc = "done"
        /\ th[t].op = "add_subscriber"
        /\ th[t].ret.kind = "return"
        /\ th[t].ret.value # th[t].subscriber_id
        /\ th[t].signup.name = "Ann"
        /\ \E r \in subscribers :
              /\ r.id = th[t].ret.value
              /\ r.name = None
              /\ r.campaign = "summer"
        /\ \E r \in subscribers : r.id # th[t].ret.value /\ r.unsubscribed_at # NULL

----------------------------------------------------------------------------
(* Claims about the store the service alone has written (SpecRoutes) *)

(* a response that carries the three subscriber counts *)
Counts(resp) ==
    IF "analytics" \in DOMAIN resp THEN <<resp.analytics>>
    ELSE IF "html" \in DOMAIN resp THEN <<resp.html>>
    ELSE <<>>

(* C22: from a freshly initialised store, whatever requests the routes of  *)
(* the service have handled, every subscriber row has is_active = 1,       *)
(* is_confirmed = 0 and unsubscribed_at NULL and every event is a signup   *)
(* event (so no reactivation has happened: it would log "resubscribe");    *)
(* every analytics result handed to /analytics, /stats or /admin has       *)
(* active_subscribers = total_subscribers and confirmed_subscribers = 0,   *)
(* and so has every response that shows the counts; a signup for an email  *)
(* already in the store was answered "already subscribed"                  *)
C22_ServiceRowsStayActive ==
    /\ \A row \in subscribers :
          row.is_active = 1 /\ row.is_confirmed = 0 /\ row.unsubscribed_at = NULL
    /\ \A i \in DOMAIN events : events[i].event_type = "signup"
    /\ Len(events) = Cardinality(subscribers)
    /\ \A r \in Requests :
          /\ ( /\ loop.request[r].route \in {"/analytics", "/stats", "/admin"}
               /\ loop.outcome[r].kind = "return" )
             => /\ loop.outcome[r].value.active_subscribers
                     = loop.outcome[r].value.total_subscribers
                /\ loop.outcome[r].value.confirmed_subscribers = 0
          /\ \A i \in DOMAIN Counts(loop.response[r]) :
                /\ Counts(loop.response[r])[i].active_subscribers
                     = Counts(loop.response[r])[i].total_subscribers
                /\ Counts(loop.response[r])[i].confirmed_subscribers = 0
          /\ ( /\ loop.request[r].route \in SignupRoutes
               /\ loop.outcome[r].kind = "return" )
             => \E row \in RowsOf(loop.request[r].signup.email) :
                   /\ row.id = loop.outcome[r].value
                   /\ EventsOf(row.id, "signup") # {}

(* two signups for one address have been answered, the first stored and the *)
(* second refused, and the store still holds the one active row             *)
C22_Witness ==
    /\ \E r1, r2 \in Requests :
          /\ r1 # r2
          /\ loop.request[r1].route \in SignupRoutes
          /\ loop.request[r2].route \in SignupRoutes
          /\ loop.request[r1].signup.email = loop.request[r2].signup.email
          /\ loop.pc[r1] = "delivered" /\ loop.pc[r2] = "delivered"
          /\ loop.outcome[r1].kind = "return"
          /\ loop.outcome[r2] = Raise("ValueError", EmailAlreadySubscribed)
    /\ \E row \in subscribers : row.is_active = 1 /\ row.unsubscribed_at = NULL

(* the admin page has been rendered over a store that holds a row *)
C22_WitnessCounts ==
    \E r \in Requests :
        /\ loop.request[r].route = "/admin"
        /\ loop.pc[r] = "delivered"
        /\ Counts(loop.response[r]) # <<>>
        /\ Counts(loop.response[r])[1].total_subscribers = 1
        /\ Counts(loop.response[r])[1].active_subscribers = 1

---------------------------------------------------------------------------
(* Claims about add_subscriber on rows whose flags disagree (SpecFlags) *)

(* C21: whether a signup for an existing email reactivates or ends with   *)
(* 'Email already subscribed' depends on unsubscribed_at alone: with      *)
(* unsubscribed_at NULL it ends with the ValueError and leaves the tables *)
(* as they are, also when the row has is_active = 0 (the row stays        *)
(* inactive); with unsubscribed_at set it goes on to the reactivation.     *)
C21_BranchOnUnsubscribedAt ==
    [][ \A t \in Threads :
          Steps(t, "select")
          => \A row \in RowsOf(th[t].signup.email) :
                IF row.unsubscribed_at = NULL
                THEN /\ th'[t].pc = "done"
                     /\ th'[t].ret = Raise("ValueError", EmailAlreadySubscribed)
                     /\ subscribers' = subscribers
                     /\ events' = events
                     /\ row \in subscribers'
                ELSE th'[t].pc = "update" ]_vars

(* a signup for the inactive row without unsubscribed_at was refused and *)
(* the row is still inactive                                             *)
C21_Witness ==
    \E t \in Threads :
        /\ th[t].pc = "done"
        /\ th[t].op = "add_subscriber"
        /\ th[t].ret = Raise("ValueError", EmailAlreadySubscribed)
        /\ \E row \in RowsOf(th[t].signup.email) :
              row.is_active = 0 /\ row.unsubscribed_at = NULL

---------------------------------------------------------------------------
(* Claims about the launch countdown (SpecCountdown) *)

AllZero(c) ==
    /\ c.days = 0 /\ c.hours = 0 /\ c.minutes = 0 /\ c.seconds = 0
    /\ c.total_seconds = 0

(* C3: for every `now` at or after the launch instant the launch_countdown *)
(* has days, hours, minutes, seconds and total_seconds all 0.              *)
C3_ZeroAfterLaunch ==
    (cd.computed /\ NotBefore(cd.now, launch_date)) => AllZero(cd.launch_countdown)

(* the whole seconds from `now` to the launch instant *)
Remaining(now) ==
    (launch_date.s - now.s) - (IF now.us > launch_date.us THEN 1 ELSE 0)

(* C16: for every `now` strictly before the launch instant the            *)
(* launch_countdown has 0 <= hours <= 23, 0 <= minutes <= 59,             *)
(* 0 <= seconds <= 59, days >= 0, and days*86400 + hours*3600 +           *)
(* minutes*60 + seconds = total_seconds = the whole seconds remaining; at *)
(* 90,061 seconds before the launch it is days 1, hours 1, minutes 1,     *)
(* seconds 1.                                                             *)
C16_CountdownDecomposition ==
    /\ (cd.computed /\ ~NotBefore(cd.now, launch_date))
       => LET c == cd.launch_countdown
          IN  /\ c.days >= 0
              /\ c.hours \in 0..23
              /\ c.minutes \in 0..59
              /\ c.seconds \in 0..59
              /\ c.days * SecondsPerDay + c.hours * SecondsPerHour
                    + c.minutes * SecondsPerMinute + c.seconds = c.total_seconds
              /\ c.total_seconds = Remaining(cd.now)
    /\ (cd.computed /\ cd.now = DT(-90061, 0))
       => cd.launch_countdown =
            [days |-> 1, hours |-> 1, minutes |-> 1, seconds |-> 1,
             total_seconds |-> 90061]

(* the countdown was computed 90,061 seconds before the launch *)
C16_Witness ==
    /\ cd.computed
    /\ cd.now = DT(-90061, 0)
    /\ cd.launch_countdown.days = 1

---------------------------------------------------------------------------
(* Claims about the reads (SpecReads) *)

Range(f) == {f[i] : i \in DOMAIN f}

RECURSIVE TotalCount(_)
TotalCount(groups) ==
    IF groups = <<>> THEN 0 ELSE Head(groups).count + TotalCount(Tail(groups))

(* C8 as stated: export_subscribers returns exactly the active rows,    *)
(* restricted to campaign = filter whenever a campaign filter is given. *)
C8_ExportGivenFilter ==
    [][ \A t \in Threads :
          Steps(t, "export_query")
          => /\ th'[t].ret.kind = "return"
             /\ Range(th'[t].ret.value) =
                  { r \in subscribers :
                      /\ r.is_active = 1
                      /\ th[t].campaign # None => r.campaign = th[t].campaign } ]_vars

(* C8 amended: export_subscribers returns, each once, exactly the rows with  *)
(* is_active = 1, restricted to campaign = filter when a non-empty campaign *)
(* filter is given; an empty-string filter is treated as no filter.          *)
C8_ExportActiveOnly ==
    [][ \A t \in Threads :
          Steps(t, "export_query")
          => /\ th'[t].ret.kind = "return"
             /\ Len(th'[t].ret.value) = Cardinality(Range(th'[t].ret.value))
             /\ Range(th'[t].ret.value) =
                  { r \in subscribers :
                      /\ r.is_active = 1
                      /\ th[t].campaign \notin {None, ""} => r.campaign = th[t].campaign } ]_vars

(* an export by campaign returned a row while an unsubscribed row and an *)
(* active row of another campaign exist                                  *)
C8_Witness ==
    \E t \in Threads :
        /\ th[t].pc = "done"
        /\ th[t].op = "export_subscribers"
        /\ th[t].ret.kind = "return"
        /\ th[t].campaign \notin {None, ""}
        /\ Len(th[t].ret.value) >= 1
        /\ \E r \in subscribers : r.is_active = 0 \/ r.campaign # th[t].campaign

(* C9: the daily_signups, sources and campaigns of get_analytics count      *)
(* exactly the rows created at or after cutoff = now - days (now the        *)
(* instant of the call), group by group; and on every state the rows in the *)
(* 30-day window are at least those in the 7-day window.                    *)
C9_WindowAggregates ==
    /\ [][ \A t \in Threads :
             /\ (Callable(t) /\ th'[t].pc = "connect" /\ th'[t].op = "get_analytics")
                => Instant(th'[t].cutoff_date) = MinusDays(clock, th'[t].days)
             /\ Steps(t, "analytics_query")
                => LET a == th'[t].ret.value
                       cutoff == Instant(th[t].cutoff_date)
                       window == { r \in subscribers :
                                     NotBefore(Instant(r.created_at), cutoff) }
                   IN  /\ TotalCount(a.daily_signups) = Cardinality(window)
                       /\ TotalCount(a.sources) = Cardinality(window)
                       /\ TotalCount(a.campaigns) = Cardinality(window)
                       /\ \A g \in Range(a.daily_signups) :
                            g.count = Cardinality({r \in window : DATE(r.created_at) = g.date})
                       /\ \A g \in Range(a.sources) :
                            g.count = Cardinality({r \in window : r.source = g.source})
                       /\ \A g \in Range(a.campaigns) :
                            g.count = Cardinality({r \in window : r.campaign = g.campaign}) ]_vars
    /\ [](Cardinality(WindowRows(subscribers, IsoFormat(MinusDays(clock, 30))))
            >= Cardinality(WindowRows(subscribers, IsoFormat(MinusDays(clock, 7)))))

(* a 7-day snapshot counted a row created exactly at the cutoff and left *)
(* out an older one                                                      *)
C9_Witness ==
    \E t \in Threads :
        /\ th[t].pc = "done"
        /\ th[t].op = "get_analytics"
        /\ th[t].ret.kind = "return"
        /\ th[t].days = 7
        /\ TotalCount(th[t].ret.value.sources) = 1
        /\ th[t].ret.value.total_subscribers = 2
        /\ \E r \in subscribers : r.created_at = th[t].cutoff_date

(* thread t is inside the store with a read *)
Reading(t) == th[t].pc \in {"export_query", "analytics_query"}

(* C17: an export_subscribers or get_analytics read that overlaps          *)
(* add_subscriber calls sees the store entirely before or entirely after   *)
(* each write: while the read is inside the store, the tables it reads are *)
(* the committed tables, no other connection is open (no write is in       *)
(* flight), and in what it reads every row has its one signup event and    *)
(* every event its row.                                                    *)
C17_ReadsSeeCommitted ==
    \A t \in Threads :
        Reading(t)
        => /\ conn[t].subs = subscribers
           /\ conn[t].evts = events
           /\ \A w \in Threads \ {t} : ~conn[w].open
           /\ \A row \in conn[t].subs :
                 Cardinality({i \in DOMAIN conn[t].evts :
                                /\ conn[t].evts[i].subscriber_id = row.id
                                /\ conn[t].evts[i].event_type = "signup"}) = 1
           /\ \A i \in DOMAIN conn[t].evts :
                 \E row \in conn[t].subs : row.id = conn[t].evts[i].subscriber_id

(* a read is inside the store while an add_subscriber call that has drawn *)
(* its id waits for the lock to reactivate an unsubscribed row            *)
C17_Witness ==
    \E t, w \in Threads :
        /\ Reading(t)
        /\ th[w].op = "add_subscriber"
        /\ th[w].pc = "connect"
        /\ \E row \in subscribers :
              row.email = th[w].signup.email /\ row.unsubscribed_at # NULL

---------------------------------------------------------------------------
(* Claims about concurrent reads (SpecReaders) *)

(* thread t has called a read and is about to enter the store *)
ReadWaiting(t) ==
    /\ th[t].pc = "connect"
    /\ th[t].op \in {"export_subscribers", "get_analytics"}

(* C18 as stated: reads proceed concurrently with each other: a read that *)
(* is about to enter the store can enter while another caller's read is   *)
(* inside.                                                                *)
C18_ReadsNotExcluded ==
    \A t1, t2 \in Threads :
        (t1 # t2 /\ Reading(t1) /\ ReadWaiting(t2)) => ENABLED get_connection(t2)

---------------------------------------------------------------------------
(* Claims about the signup handler and the welcome email (SpecLoop) *)

EmailStarted(r) == loop.email[r] \notin {"none", "scheduled"}

(* the handler of request r runs in this step *)
Handled(r) == loop.pc[r] = "queued" /\ loop'.pc[r] # "queued"

(* a step of the welcome-email task of request r *)
EmailStep(r) == loop.email[r] # "none" /\ loop'.email[r] # loop.email[r]

(* the welcome-email tasks of request r waiting on the loop *)
TasksOf(r) == Cardinality({i \in DOMAIN loop.ready : loop.ready[i] = EmailTask(r)})

(* C10: the welcome-email send never blocks or delays the signup response: *)
(* whenever the send of a signup has started (or ended), the response of  *)
(* that signup has already been delivered.                                *)
C10_ResponseNotDelayedByEmail ==
    \A r \in Requests : EmailStarted(r) => loop.pc[r] = "delivered"

(* C11: a failure of the welcome-email send (SMTP unconfigured, connection, *)
(* login or send error) never changes the signup outcome: no step of the    *)
(* send touches the tables, the outcome or the response, and whenever the   *)
(* send was skipped or has failed the response is the success response      *)
(* with the subscriber id, whose row and signup event are persisted.        *)
C11_EmailFailureKeepsSignup ==
    /\ [][ \A r \in Requests :
             EmailStep(r)
             => /\ subscribers' = subscribers
                /\ events' = events
                /\ [loop' EXCEPT !.email = loop.email, !.running = loop.running,
                                 !.ready = loop.ready] = loop ]_vars
    /\ [](\A r \in Requests :
             loop.email[r] \in {"failed", "skipped"}
             => /\ loop.token[r] # 0
                /\ loop.response[r] = NewsletterResponse(TRUE, OnTheList, loop.token[r])
                /\ \E row \in subscribers : row.id = loop.token[r]
                /\ EventsOf(loop.token[r], "signup") # {})

(* a send failed and the success response of its signup was delivered *)
C11_Witness ==
    \E r \in Requests :
        /\ loop.email[r] = "failed"
        /\ loop.pc[r] = "delivered"
        /\ loop.response[r].success
        /\ \E row \in subscribers : row.id = loop.response[r].subscriber_id

(* C12: a signup request for an email with no row, whose add_subscriber    *)
(* does not fail in the store, is answered success = true with a non-empty *)
(* subscriber_id (the id of the new row); a signup request for an email    *)
(* whose row is active is answered success = true, a message containing    *)
(* 'already', and no subscriber_id.                                        *)
C12_FirstThenAlready ==
    [][ \A r \in Requests :
          (Handled(r) /\ loop'.outcome[r].kind # "OperationalError")
          => LET e == loop.request[r].signup.email
                 resp == loop'.response[r]
             IN  /\ RowsOf(e) = {}
                    => /\ resp.status = 200
                       /\ resp.success
                       /\ resp.subscriber_id # 0
                       /\ \E row \in subscribers' :
                             row.email = e /\ row.id = resp.subscriber_id
                 /\ (\E row \in RowsOf(e) : row.is_active = 1)
                    => /\ resp.status = 200
                       /\ resp.success
                       /\ In(<<"already">>, resp.message)
                       /\ resp.subscriber_id = 0 ]_vars

(* the first request for an email got an id, a later one 'already' *)
C12_Witness ==
    \E r1, r2 \in Requests :
        /\ r1 < r2
        /\ loop.pc[r1] = "delivered" /\ loop.pc[r2] = "delivered"
        /\ loop.request[r1].signup.email = loop.request[r2].signup.email
        /\ loop.response[r1].subscriber_id # 0
        /\ loop.response[r2] = NewsletterResponse(TRUE, AlreadyOnList, 0)

C20_OneSendPerSuccess ==
    /\ [](\A r \in Requests :
             IF loop.outcome[r].kind = "return"
             THEN /\ loop.email[r] # "none"
                  /\ loop.token[r] = loop.outcome[r].value
                  /\ loop.response[r].subscriber_id = loop.token[r]
                  /\ TasksOf(r) = IF loop.email[r] = "scheduled" THEN 1 ELSE 0
             ELSE /\ loop.email[r] = "none"
                  /\ loop.token[r] = 0
                  /\ TasksOf(r) = 0)
    /\ [][ \A r \in Requests :
             /\ loop.email[r] \in {"sent", "failed", "skipped"}
                => loop'.email[r] = loop.email[r]
             /\ loop.email[r] \notin {"none", "scheduled"}
                => loop'.email[r] # "scheduled" ]_vars

(* a signup reactivated the row of an earlier request; the first send *)
(* failed, the second was sent with the same id as token              *)
C20_Witness ==
    \E r1, r2 \in Requests :
        /\ r1 # r2
        /\ loop.email[r1] = "failed"
        /\ loop.email[r2] = "sent"
        /\ loop.token[r1] = loop.token[r2]
        /\ loop.token[r1] # 0

---------------------------------------------------------------------------
(* Claims about the routes (SpecRoutes) *)

(* the texts a response carries *)
ResponseTexts(resp) ==
    { resp[f] : f \in DOMAIN resp \cap {"message", "error", "detail"} }

(* C14: no public endpoint (/signup, /register, /contact, /stats, /track, *)
(* /health) returns the text of an internal exception: whenever a handler *)
(* caught an exception, no text of its response contains the exception's. *)
C14_NoExceptionText ==
    \A r \in Requests :
        loop.outcome[r].kind \notin {"none", "return"}
        => \A text \in ResponseTexts(loop.response[r]) :
              ~In(loop.outcome[r].detail, text)

(* the nearest bound of [1, 365] *)
Clamped(days) == IF days < 1 THEN 1 ELSE IF days > 365 THEN 365 ELSE days

(* rows created at or after now - days *)
InWindow(subs, now, days) ==
    { row \in subs : NotBefore(Instant(row.created_at), MinusDays(now, days)) }

(* C15 as stated: GET /analytics with a valid token answers with the *)
(* snapshot of the window `days` clamped to [1, 365].                *)
C15_DaysClamped ==
    [][ \A r \in Requests :
          ( /\ Handled(r)
            /\ loop.request[r].route = "/analytics"
            /\ loop.request[r].token = AdminToken )
          => /\ loop'.response[r].status = 200
             /\ loop'.window[r] = Clamped(loop.request[r].days) ]_vars

(* C15 amended: GET /analytics with a valid token and days in [1, 365] is *)
(* answered with the snapshot of that window; with days below 1 or above  *)
(* 365 it is answered 422 and get_analytics is not called; get_analytics  *)
(* is never called with a window outside [1, 365].                        *)
C15_DaysValidated ==
    /\ [][ \A r \in Requests :
             ( /\ Handled(r)
               /\ loop.request[r].route = "/analytics"
               /\ loop.request[r].token = AdminToken )
             => LET days == loop.request[r].days
                    resp == loop'.response[r]
                IN  IF days >= 1 /\ days <= 365
                    THEN /\ resp.status = 200
                         /\ loop'.window[r] = days
                         /\ resp.analytics.total_subscribers = Cardinality(subscribers)
                         /\ TotalCount(resp.analytics.daily_signups) =
                               Cardinality(InWindow(subscribers, clock, days))
                         /\ TotalCount(resp.analytics.sources) =
                               Cardinality(InWindow(subscribers, clock, days))
                    ELSE /\ resp.status = 422
                         /\ loop'.window[r] = 0
                         /\ loop'.outcome[r] = NoRet ]_vars
    /\ [](\A r \in Requests : loop.window[r] = 0 \/ loop.window[r] \in 1..365)

(* days = 366 was rejected and days = 365 was answered with a snapshot *)
C15_Witness ==
    \E r1, r2 \in Requests :
        /\ loop.pc[r1] = "delivered" /\ loop.pc[r2] = "delivered"
        /\ loop.request[r1].route = "/analytics" /\ loop.request[r1].days = 366
        /\ loop.request[r1].token = AdminToken
        /\ loop.response[r1].status = 422
        /\ loop.request[r2].route = "/analytics" /\ loop.request[r2].days = 365
        /\ loop.response[r2].status = 200

====
